---------------------------- MODULE Spec2Model ----------------------------
(***************************************************************************)
(* A model of unassemblize's Function::disassemble (src/function.cpp): the *)
(* two-pass labelling and symbolication of one function's byte range, the  *)
(* inline jump-table scan and the five operand-printing hooks.             *)
(*                                                                         *)
(* Text is a sequence of string pieces: literals of the source keep their  *)
(* spelling ("label_", "    .int ") and formatted numbers are one          *)
(* character per piece.  m_dissassembly is a sequence of lines: every      *)
(* append of the source ends in a line break, so the sequence of lines is  *)
(* the flat string cut at its line breaks.                                 *)
(*                                                                         *)
(* TLC's integers are 32-bit signed.  Addresses of the model stay below    *)
(* 2^31; the one quantity that can exceed it, the uint32 read by get_le32, *)
(* is carried as two 16-bit halves and compared as an unsigned number.     *)
(***************************************************************************)
EXTENDS Integers, Sequences, FiniteSets, TLC

(***************************************************************************)
(* Bounds of the model.                                                    *)
(***************************************************************************)
\* Longest section, in items (instructions or 4-byte words), of Spec.
MaxItems == 3
\* Most 4-byte words after the trigger instruction in SpecTable.
MaxWords == 3
\* Most items of memory that lie behind the section's last byte.
MaxBeyond == 1
\* Most runs of disassemble() on one Function object.
MaxRuns == 2
\* Most entries of the symbol table in SpecHooks.
MaxSymbols == 2

(***************************************************************************)
(* Bytes, numbers and text.                                                *)
(***************************************************************************)
\* std::hex / "%x": lowercase digits, no leading zero.
HexDigits == <<"0", "1", "2", "3", "4", "5", "6", "7",
               "8", "9", "a", "b", "c", "d", "e", "f">>

\* The formatter's own numeric rendering uses uppercase digits.
HexDigitsUpper == <<"0", "1", "2", "3", "4", "5", "6", "7",
                    "8", "9", "A", "B", "C", "D", "E", "F">>

RECURSIVE HexWith(_, _)
HexWith(digits, n) ==
    IF n < 16 THEN <<digits[n + 1]>>
    ELSE HexWith(digits, n \div 16) \o <<digits[(n % 16) + 1]>>

\* stream << std::hex << address; also "%x" and "%" PRIx64.
Hex(n) == HexWith(HexDigits, n)

\* The label's name with the address in uppercase hexadecimal.
Mutant_LabelName_UpperCase(address) ==
    <<"label_">> \o HexWith(HexDigitsUpper, address)

\* The name a label gets: std::string("label_") + stream.str().
LabelName(address) == <<"label_">> \o Hex(address)

\* m_labels[address] = name, on a std::map: one entry per key.
MapPut(m, k, v) == [x \in (DOMAIN m) \cup {k} |-> IF x = k THEN v ELSE m[x]]

EmptyMap == [x \in {} |-> <<>>]

\* A uint32 as two 16-bit halves.
U32(hi, lo) == [hi |-> hi, lo |-> lo]

\* The uint32 of an address of the model (below 2^31).
ToU32(n) == U32(n \div 65536, n % 65536)

\* The number a uint32 stands for; used only where it is below 2^31.
FromU32(w) == w.hi * 65536 + w.lo

\* next_int >= address, unsigned.
U32Ge(w, n) == \/ w.hi > n \div 65536
               \/ (w.hi = n \div 65536 /\ w.lo >= n % 65536)

\* next_int <= address, unsigned.
U32Le(w, n) == \/ w.hi < n \div 65536
               \/ (w.hi = n \div 65536 /\ w.lo <= n % 65536)

\* get_le32 on the four bytes at 0-based offset off of mem.
get_le32(mem, off) ==
    U32(mem[off + 4] * 256 + mem[off + 3], mem[off + 2] * 256 + mem[off + 1])

\* The little-endian bytes of a 32-bit address, as the linker stores a
\* jump-table slot.
Le32Bytes(n) ==
    <<n % 256, (n \div 256) % 256, (n \div 65536) % 256, n \div 16777216>>


(***************************************************************************)
(* The state.  One Executable (one section, the image range, the symbol    *)
(* table) and two Function objects over it.                                *)
(***************************************************************************)
VARIABLES
    section_data,       \* m_executable.section_data(): the section's bytes
    beyond,             \* the bytes of memory behind the section's last byte
    base_address,       \* m_executable.base_address()
    end_address,        \* m_executable.end_address()
    symbols,            \* the executable's symbol table
    m_startAddress,     \* per Function
    m_endAddress,       \* per Function
    m_labels,           \* per Function: address -> label name
    m_dissassembly,     \* per Function: the output text, as lines
    pc,                 \* per Function: where disassemble() stands
    offset,             \* per call: the cursor, as an offset into the section
    runtime_address,    \* per call: the cursor, as an address
    next_int,           \* per call: the word the jump-table scan looks at
    in_jump_table,      \* per call: the scan's local flag (lines 392, 446)
    static_in_jump_table, \* the function-static flag (line 358)
    default_print,      \* the five file-scope default_* pointers
    hook_index,         \* per call: the hook UnasmDisassembleCustom registers next
    formatter,          \* per call: the callbacks of the local ZydisFormatter
    called,             \* per call: what a delegating hook called through default_*
    runs,               \* per Function: calls of disassemble() so far
    first_text,         \* per Function: dissassembly() as read after the first call
    le32_oob,           \* per Function: get_le32 has read behind the section
    visited,            \* per call: what the cursor of each pass has stood on
    hook_call,          \* SpecHooks: the hook invocation under test
    hook_result         \* SpecHooks: what it returned

vars == <<section_data, beyond, base_address, end_address, symbols,
          m_startAddress, m_endAddress, m_labels, m_dissassembly, pc, offset,
          runtime_address, next_int, in_jump_table, static_in_jump_table,
          default_print, hook_index, formatter, called, runs, first_text,
          le32_oob, visited, hook_call, hook_result>>

Funcs == {1, 2}

\* m_executable.section_address(): where the one section is loaded.  Every
\* byte of an address near it (40 40 40 4x) is a one-byte instruction.
SectionAddress == 64 * 16843009

\* m_executable.section_size().
section_size == Len(section_data)

\* func->section_end().
section_end == SectionAddress + section_size

\* The memory a read at a section offset sees: the section and what lies
\* behind it.
Memory == section_data \o beyond

\* Whether the n bytes at offset off are bytes the model has given a value.
Mapped(off, n) == off + n <= Len(Memory)

(***************************************************************************)
(* The decoder (Zydis, LEGACY_32), on the opcodes the modelled sections    *)
(* are built from.                                                         *)
(***************************************************************************)
Reg32 == <<"eax", "ecx", "edx", "ebx", "esp", "ebp", "esi", "edi">>

SignExtend8(b) == IF b >= 128 THEN b - 256 ELSE b

Instruction(ok, length, mnemonic, isRel, imm, reg) ==
    [ok |-> ok, length |-> length, mnemonic |-> mnemonic,
     is_relative |-> isRel, imm |-> imm, reg |-> reg]

DecodeFailed == Instruction(FALSE, 0, "invalid", FALSE, 0, 0)

\* Bytes the decoder reads at off: the opcode, and the byte after it for
\* rel8 branches (EB, 74) and for the ModRM of FF.
DecodeLength(mem, off) ==
    IF mem[off + 1] \in {235, 116, 255} THEN 2 ELSE 1

\* ZydisDecoderDecodeInstruction + ZydisDecoderDecodeOperands.
\*   40+r inc r32, 48+r dec r32, 50+r push r32, 58+r pop r32,
\*   90 nop, C3 ret, EB cb jmp rel8, 74 cb jz rel8, FF /7 undefined.
UnasmDisassembleNoFormat(mem, off) ==
    LET op == mem[off + 1] IN
    CASE op \in 64..71   -> Instruction(TRUE, 1, "inc", FALSE, 0, op - 64)
      [] op \in 72..79   -> Instruction(TRUE, 1, "dec", FALSE, 0, op - 72)
      [] op \in 80..87   -> Instruction(TRUE, 1, "push", FALSE, 0, op - 80)
      [] op \in 88..95   -> Instruction(TRUE, 1, "pop", FALSE, 0, op - 88)
      [] op = 144        -> Instruction(TRUE, 1, "nop", FALSE, 0, 0)
      [] op = 195        -> Instruction(TRUE, 1, "ret", FALSE, 0, 0)
      [] op = 235        ->
            Instruction(TRUE, 2, "jmp", TRUE, SignExtend8(mem[off + 2]), 0)
      [] op = 116        ->
            Instruction(TRUE, 2, "jz", TRUE, SignExtend8(mem[off + 2]), 0)
      [] op = 255 /\ (mem[off + 2] \div 8) % 8 = 7 -> DecodeFailed

\* ZydisCalcAbsoluteAddress for a relative immediate: the address after the
\* instruction plus the signed immediate (32-bit; the model stays far from
\* the wrap).
ZydisCalcAbsoluteAddress(instruction, address) ==
    address + instruction.length + instruction.imm

\* instruction.info.mnemonic == ZYDIS_MNEMONIC_NOP || ... == ZYDIS_MNEMONIC_JMP
IsJumpTableTrigger(instruction) == instruction.mnemonic \in {"nop", "jmp"}

(***************************************************************************)
(* The executable's symbol lookup.                                         *)
(***************************************************************************)
EmptySymbol == [name |-> <<>>, value |-> 0]

\* Executable::get_symbol: the symbol at the address, else the nearest one
\* below it, else the empty symbol.
get_symbol(address) ==
    LET below == {s \in symbols : s.value <= address} IN
    IF below = {} THEN EmptySymbol
    ELSE CHOOSE s \in below : \A t \in below : t.value <= s.value

(***************************************************************************)
(* The five operand-printing hooks.  Each returns the text it appended, or *)
(* that it failed, or that it handed the operand to the default_* pointer  *)
(* of its kind.                                                            *)
(***************************************************************************)
HookText(text) == [status |-> "ok", text |-> text]

HookDelegates == [status |-> "default", text |-> <<>>]

HookFailed == [status |-> "failed", text |-> <<>>]

\* What ZyanStringAppendFormat can do with the format "+%s+0x%" of line 210,
\* whose last conversion has no specifier: fail (vsnprintf returns -1), stop
\* at the '%', or print it.
FormatUB == {"failed", "dropped", "percent"}

\* The absolute-address hook with the section test before the label test.
Mutant_PrintAddressAbsolute_SectionFirst(labels, address) ==
    IF address >= SectionAddress /\ address <= section_end THEN
        LET symbol == get_symbol(address) IN
        IF symbol.name # <<>> /\ symbol.value = address
        THEN HookText(symbol.name)
        ELSE HookText(<<"sub_">> \o Hex(address))
    ELSE IF address \in DOMAIN labels THEN HookText(labels[address])
    ELSE HookDelegates

UnasmFormatterPrintAddressAbsolute(labels, address) ==
    IF address \in DOMAIN labels THEN HookText(labels[address])
    ELSE IF address >= SectionAddress /\ address <= section_end THEN
        LET symbol == get_symbol(address) IN
        IF symbol.name # <<>> /\ symbol.value = address
        THEN HookText(symbol.name)
        ELSE HookText(<<"sub_">> \o Hex(address))
    ELSE IF address >= base_address /\ address <= end_address THEN
        LET symbol == get_symbol(address) IN
        IF symbol.name # <<>> /\ symbol.value = address
        THEN HookText(symbol.name)
        ELSE HookText(<<"off_">> \o Hex(address))
    ELSE HookDelegates

UnasmFormatterPrintAddressRelative(labels, address) ==
    IF address \in DOMAIN labels THEN HookText(labels[address])
    ELSE IF address >= SectionAddress /\ address <= section_end THEN
        LET symbol == get_symbol(address) IN
        IF symbol.name # <<>> /\ symbol.value = address
        THEN HookText(symbol.name)
        ELSE HookText(<<"sub_">> \o Hex(address))
    ELSE IF address >= base_address /\ address <= end_address THEN
        LET symbol == get_symbol(address) IN
        IF symbol.name # <<>> /\ symbol.value = address
        THEN HookText(symbol.name)
        ELSE HookText(<<"off_">> \o Hex(address))
    ELSE HookDelegates

UnasmFormatterPrintIMM(labels, address) ==
    IF address \in DOMAIN labels THEN HookText(labels[address])
    ELSE IF address >= SectionAddress /\ address <= section_end THEN
        LET symbol == get_symbol(address) IN
        IF symbol.name # <<>> /\ symbol.value = address
        THEN HookText(symbol.name)
        ELSE HookText(<<"sub_">> \o Hex(address))
    ELSE IF address >= base_address /\ address <= end_address THEN
        LET symbol == get_symbol(address) IN
        IF symbol.name # <<>> /\ symbol.value = address
        THEN HookText(symbol.name)
        ELSE HookText(<<"off_">> \o Hex(address))
    ELSE HookDelegates

\* ub: the outcome of the malformed format of line 210.
UnasmFormatterPrintDISP(labels, address, ub) ==
    IF address \in DOMAIN labels THEN HookText(<<"+">> \o labels[address])
    ELSE IF address >= SectionAddress /\ address <= section_end THEN
        LET symbol == get_symbol(address) IN
        IF symbol.name # <<>> THEN
            IF symbol.value = address
            THEN HookText(<<"+">> \o symbol.name)
            ELSE CASE ub = "failed"  -> HookFailed
                   [] ub = "dropped" ->
                        HookText(<<"+">> \o symbol.name \o <<"+0x">>)
                   [] ub = "percent" ->
                        HookText(<<"+">> \o symbol.name \o <<"+0x", "%">>)
        ELSE HookText(<<"+sub_">> \o Hex(address))
    ELSE IF address >= base_address /\ address <= end_address THEN
        LET symbol == get_symbol(address) IN
        IF symbol.name # <<>> THEN
            IF symbol.value = address
            THEN HookText(<<"+">> \o symbol.name)
            ELSE HookText(<<"+">> \o symbol.name \o <<"+0x">>
                          \o Hex(address - symbol.value))
        ELSE HookText(<<"+off_">> \o Hex(address))
    ELSE HookDelegates

\* The far-pointer hook writing "off_" as the four others do.
Mutant_FormatOperandPTR_Off(labels, address) ==
    IF address \in DOMAIN labels THEN HookText(labels[address])
    ELSE IF address >= SectionAddress /\ address <= section_end THEN
        LET symbol == get_symbol(address) IN
        IF symbol.name # <<>> /\ symbol.value = address
        THEN HookText(symbol.name)
        ELSE HookText(<<"sub_">> \o Hex(address))
    ELSE IF address >= base_address /\ address <= end_address THEN
        LET symbol == get_symbol(address) IN
        IF symbol.name # <<>> /\ symbol.value = address
        THEN HookText(symbol.name)
        ELSE HookText(<<"off_">> \o Hex(address))
    ELSE HookDelegates

UnasmFormatterFormatOperandPTR(labels, address) ==
    IF address \in DOMAIN labels THEN HookText(labels[address])
    ELSE IF address >= SectionAddress /\ address <= section_end THEN
        LET symbol == get_symbol(address) IN
        IF symbol.name # <<>> /\ symbol.value = address
        THEN HookText(symbol.name)
        ELSE HookText(<<"sub_">> \o Hex(address))
    ELSE IF address >= base_address /\ address <= end_address THEN
        LET symbol == get_symbol(address) IN
        IF symbol.name # <<>> /\ symbol.value = address
        THEN HookText(symbol.name)
        ELSE HookText(<<"unk_">> \o Hex(address))
    ELSE HookDelegates

\* The operand kinds, in the order UnasmDisassembleCustom registers their
\* hooks (lines 322-337).
HookKinds == <<"abs", "imm", "rel", "disp", "ptr">>

\* The hook of a kind, on one address.
Hook(kind, labels, address, ub) ==
    CASE kind = "abs"  -> UnasmFormatterPrintAddressAbsolute(labels, address)
      [] kind = "rel"  -> UnasmFormatterPrintAddressRelative(labels, address)
      [] kind = "imm"  -> UnasmFormatterPrintIMM(labels, address)
      [] kind = "disp" -> UnasmFormatterPrintDISP(labels, address, ub)
      [] kind = "ptr"  -> UnasmFormatterFormatOperandPTR(labels, address)

\* The formatter's own renderer of a kind: the numeric literal.
ZydisDefaultPrint(kind, address) ==
    (IF kind = "disp" THEN <<"+">> ELSE <<>>)
        \o <<"0x">> \o HexWith(HexDigitsUpper, address)

(***************************************************************************)
(* Function::disassemble, one step at a time.                              *)
(***************************************************************************)
exeVars == <<section_data, base_address, end_address, symbols>>

rangeVars == <<m_startAddress, m_endAddress>>

testVars == <<hook_call, hook_result>>

Upd(v, f, x) == [v EXCEPT ![f] = x]

\* Nothing visited yet, in either loop.
NoVisits == [pass1 |-> <<>>, pass2 |-> <<>>]

\* The cursor of a loop of f stands on an instruction ("insn"), on a slot
\* of a jump table ("slot"), or where the loop ends ("end", or "failed"
\* when the formatter fails).
Visit(f, pass, kind) ==
    Upd(visited, f,
        [visited[f] EXCEPT ![pass] = Append(@, <<kind, runtime_address[f]>>)])

\* ZyanUSize end_offset = m_endAddress - section_address (line 362).
end_offset(f) == m_endAddress[f] - SectionAddress

\* The branch target's label with the function's last address left out.
Mutant_BranchLabel_EndExcluded(labels, address, start, end) ==
    IF address >= start /\ address < end /\ address \notin DOMAIN labels
    THEN MapPut(labels, address, LabelName(address))
    ELSE labels

\* Lines 379-383: the label of a relative branch's target.
BranchLabel(labels, address, start, end) ==
    IF address >= start /\ address <= end /\ address \notin DOMAIN labels
    THEN MapPut(labels, address, LabelName(address))
    ELSE labels

\* The anchor's label without the test of lines 398-399 against the range.
Mutant_AnchorLabel_NoRangeTest(labels, address, start, end) ==
    IF address \notin DOMAIN labels
    THEN MapPut(labels, address, LabelName(address))
    ELSE labels

\* Lines 398-403: the label of a jump table's first slot.
AnchorLabel(labels, address, start, end) ==
    IF address >= start /\ address <= end /\ address \notin DOMAIN labels
    THEN MapPut(labels, address, LabelName(address))
    ELSE labels

\* Lines 408-412: the label of the address a slot holds.
SlotLabel(labels, address) ==
    IF address \notin DOMAIN labels
    THEN MapPut(labels, address, LabelName(address))
    ELSE labels

\* The range test with the function's last address left out.
Mutant_InFunction_EndExcluded(word, start, end) ==
    U32Ge(word, start) /\ U32Le(word, end - 1)

\* next_int >= m_startAddress && next_int <= m_endAddress (lines 395, 449).
InFunction(word, start, end) == U32Ge(word, start) /\ U32Le(word, end)

\* Whether a 4-byte read at a section offset leaves the section's bytes.
ReadsBehindSection(off) == off + 4 > section_size

\* disassemble() without the guard of lines 354-356.
Mutant_Enter_NoSizeGuard(f) ==
    /\ runs' = Upd(runs, f, runs[f] + 1)
    /\ pc' = Upd(pc, f, "pass1")
    /\ offset' = Upd(offset, f, m_startAddress[f] - SectionAddress)
    /\ runtime_address' = Upd(runtime_address, f, m_startAddress[f])
    /\ static_in_jump_table' = FALSE
    /\ UNCHANGED <<exeVars, beyond, rangeVars, m_labels, m_dissassembly,
                   next_int, in_jump_table, default_print, hook_index,
                   formatter, called, le32_oob, testVars>>
    /\ visited' = Upd(visited, f, NoVisits)

\* Lines 354-365: the zero-size guard, then the cursor at the start.
Enter(f) ==
    /\ runs' = Upd(runs, f, runs[f] + 1)
    /\ IF section_size = 0
       THEN /\ pc' = Upd(pc, f, "done")
            /\ UNCHANGED <<offset, runtime_address, static_in_jump_table>>
       ELSE /\ pc' = Upd(pc, f, "pass1")
            /\ offset' = Upd(offset, f, m_startAddress[f] - SectionAddress)
            /\ runtime_address' = Upd(runtime_address, f, m_startAddress[f])
            /\ static_in_jump_table' = FALSE
    /\ UNCHANGED <<exeVars, beyond, rangeVars, m_labels, m_dissassembly,
                   next_int, in_jump_table, default_print, hook_index,
                   formatter, called, le32_oob, testVars>>
    /\ visited' = Upd(visited, f, NoVisits)

\* The first call of disassemble() on a Function.
Disassemble(f) ==
    /\ pc[f] = "idle"
    /\ UNCHANGED first_text
    /\ Enter(f)

\* A further call on the same Function, by a caller that has read
\* dissassembly() after the call before.
DisassembleAgain(f) ==
    /\ pc[f] = "done"
    /\ runs[f] < MaxRuns
    /\ first_text' = IF runs[f] = 1 THEN Upd(first_text, f, m_dissassembly[f])
                     ELSE first_text
    /\ Enter(f)

\* The bytes, from the cursor on, that the next step of f reads.
Reads(f) ==
    LET off == offset[f] IN
    CASE pc[f] \in {"pass1", "format"} ->
            IF ~Mapped(off, 1) THEN 1
            ELSE IF ~Mapped(off, DecodeLength(Memory, off))
            THEN DecodeLength(Memory, off)
            ELSE LET instruction == UnasmDisassembleNoFormat(Memory, off) IN
                 IF /\ instruction.ok
                    /\ off <= end_offset(f)
                    /\ IsJumpTableTrigger(instruction)
                 THEN instruction.length + 4
                 ELSE DecodeLength(Memory, off)
      [] pc[f] = "pass2" ->
            IF ~Mapped(off, 1) THEN 1 ELSE DecodeLength(Memory, off)
      [] pc[f] \in {"scan1", "scan2"} ->
            IF InFunction(next_int[f], m_startAddress[f], m_endAddress[f])
            THEN 8 ELSE 0
      [] OTHER -> 0

\* Lines 368-391: one iteration of the first loop, up to the scan.
Pass1Step(f) ==
    /\ pc[f] = "pass1"
    /\ Mapped(offset[f], Reads(f))
    /\ LET instruction == UnasmDisassembleNoFormat(Memory, offset[f])
           address == ZydisCalcAbsoluteAddress(instruction, runtime_address[f])
           after == offset[f] + instruction.length
       IN
       IF ~instruction.ok \/ ~(offset[f] <= end_offset(f))
       THEN \* lines 421-423
            /\ pc' = Upd(pc, f, "pass2")
            /\ offset' = Upd(offset, f, m_startAddress[f] - SectionAddress)
            /\ runtime_address' = Upd(runtime_address, f, m_startAddress[f])
            /\ static_in_jump_table' = FALSE
            /\ UNCHANGED <<m_labels, next_int, in_jump_table, le32_oob>>
       ELSE /\ m_labels' =
                 IF instruction.is_relative
                 THEN Upd(m_labels, f,
                          BranchLabel(m_labels[f], address,
                                      m_startAddress[f], m_endAddress[f]))
                 ELSE m_labels
            /\ offset' = Upd(offset, f, after)
            /\ runtime_address' =
                 Upd(runtime_address, f, runtime_address[f] + instruction.length)
            /\ IF IsJumpTableTrigger(instruction)
               THEN /\ next_int' = Upd(next_int, f, get_le32(Memory, after))
                    /\ in_jump_table' = Upd(in_jump_table, f, FALSE)
                    /\ le32_oob' =
                         Upd(le32_oob, f, le32_oob[f] \/ ReadsBehindSection(after))
                    /\ pc' = Upd(pc, f, "scan1")
               ELSE UNCHANGED <<next_int, in_jump_table, le32_oob, pc>>
            /\ UNCHANGED static_in_jump_table
    /\ UNCHANGED <<exeVars, beyond, rangeVars, m_dissassembly, default_print,
                   hook_index, formatter, called, runs, first_text, testVars>>
    /\ visited' =
         Visit(f, "pass1",
               IF \/ ~UnasmDisassembleNoFormat(Memory, offset[f]).ok
                  \/ ~(offset[f] <= end_offset(f))
               THEN "end" ELSE "insn")

\* Lines 395-417: one test of the scan's condition and, when it holds, one
\* slot.
Scan1Step(f) ==
    /\ pc[f] = "scan1"
    /\ Mapped(offset[f], Reads(f))
    /\ IF InFunction(next_int[f], m_startAddress[f], m_endAddress[f])
       THEN LET anchored ==
                    IF ~in_jump_table[f]
                    THEN AnchorLabel(m_labels[f], runtime_address[f],
                                     m_startAddress[f], m_endAddress[f])
                    ELSE m_labels[f]
            IN
            /\ in_jump_table' = Upd(in_jump_table, f, TRUE)
            /\ m_labels' = Upd(m_labels, f, SlotLabel(anchored, FromU32(next_int[f])))
            /\ offset' = Upd(offset, f, offset[f] + 4)
            /\ runtime_address' = Upd(runtime_address, f, runtime_address[f] + 4)
            /\ next_int' = Upd(next_int, f, get_le32(Memory, offset[f] + 4))
            /\ le32_oob' =
                 Upd(le32_oob, f, le32_oob[f] \/ ReadsBehindSection(offset[f] + 4))
            /\ UNCHANGED pc
       ELSE /\ pc' = Upd(pc, f, "pass1")
            /\ UNCHANGED <<in_jump_table, m_labels, offset, runtime_address,
                           next_int, le32_oob>>
    /\ UNCHANGED <<exeVars, beyond, rangeVars, m_dissassembly,
                   static_in_jump_table, default_print, hook_index, formatter,
                   called, runs, first_text, testVars>>
    /\ visited' =
         IF InFunction(next_int[f], m_startAddress[f], m_endAddress[f])
         THEN Visit(f, "pass1", "slot")
         ELSE visited

\* The second loop stepping over bytes that do not decode instead of
\* ending.
Mutant_Pass2Decode_SkipsUndecodable(f) ==
    /\ pc[f] = "pass2"
    /\ Mapped(offset[f], Reads(f))
    /\ IF UnasmDisassembleNoFormat(Memory, offset[f]).ok
       THEN /\ pc' = Upd(pc, f, "sethook")
            /\ hook_index' = Upd(hook_index, f, 1)
            /\ formatter' = Upd(formatter, f, [k \in DOMAIN formatter[f] |-> "zydis"])
            /\ UNCHANGED <<offset, runtime_address>>
       ELSE /\ IF offset[f] <= end_offset(f)
               THEN /\ offset' = Upd(offset, f, offset[f] + 2)
                    /\ runtime_address' =
                         Upd(runtime_address, f, runtime_address[f] + 2)
                    /\ UNCHANGED pc
               ELSE /\ pc' = Upd(pc, f, "done")
                    /\ UNCHANGED <<offset, runtime_address>>
            /\ UNCHANGED <<hook_index, formatter>>
    /\ UNCHANGED <<exeVars, beyond, rangeVars, m_labels, m_dissassembly,
                   next_int, in_jump_table, static_in_jump_table,
                   default_print, called, runs, first_text, le32_oob, testVars>>
    /\ visited' =
         IF UnasmDisassembleNoFormat(Memory, offset[f]).ok
         THEN visited
         ELSE Visit(f, "pass2", "end")

\* Lines 283-318 of UnasmDisassembleCustom: decode, then a fresh formatter.
\* A failed decode ends the second loop, and with it the call.
Pass2Decode(f) ==
    /\ pc[f] = "pass2"
    /\ Mapped(offset[f], Reads(f))
    /\ IF UnasmDisassembleNoFormat(Memory, offset[f]).ok
       THEN /\ pc' = Upd(pc, f, "sethook")
            /\ hook_index' = Upd(hook_index, f, 1)
            /\ formatter' = Upd(formatter, f, [k \in DOMAIN formatter[f] |-> "zydis"])
       ELSE /\ pc' = Upd(pc, f, "done")
            /\ UNCHANGED <<hook_index, formatter>>
    /\ UNCHANGED <<exeVars, beyond, rangeVars, m_labels, m_dissassembly, offset,
                   runtime_address, next_int, in_jump_table,
                   static_in_jump_table, default_print, called, runs,
                   first_text, le32_oob, testVars>>
    /\ visited' =
         IF UnasmDisassembleNoFormat(Memory, offset[f]).ok
         THEN visited
         ELSE Visit(f, "pass2", "end")

\* Lines 322, 326, 329, 333, 336: default_* = &Unasm...Hook.
SetHookAssign(f) ==
    /\ pc[f] = "sethook"
    /\ default_print' = [default_print EXCEPT ![HookKinds[hook_index[f]]] = "hook"]
    /\ pc' = Upd(pc, f, "swaphook")
    /\ UNCHANGED <<exeVars, beyond, rangeVars, m_labels, m_dissassembly, offset,
                   runtime_address, next_int, in_jump_table,
                   static_in_jump_table, hook_index, formatter, called, runs,
                   first_text, le32_oob, testVars>>
    /\ UNCHANGED visited

\* Lines 323, 327, 330, 334, 337: ZydisFormatterSetHook installs what
\* default_* holds (when it is not null) and stores the formatter's former
\* callback in default_*.
SetHookSwap(f) ==
    /\ pc[f] = "swaphook"
    /\ LET kind == HookKinds[hook_index[f]]
           temp == default_print[kind]
       IN
       /\ default_print' = [default_print EXCEPT ![kind] = formatter[f][kind]]
       /\ formatter' =
            IF temp # "null"
            THEN Upd(formatter, f, [formatter[f] EXCEPT ![kind] = temp])
            ELSE formatter
    /\ IF hook_index[f] < Len(HookKinds)
       THEN /\ hook_index' = Upd(hook_index, f, hook_index[f] + 1)
            /\ pc' = Upd(pc, f, "sethook")
       ELSE /\ pc' = Upd(pc, f, "format")
            /\ UNCHANGED hook_index
    /\ UNCHANGED <<exeVars, beyond, rangeVars, m_labels, m_dissassembly, offset,
                   runtime_address, next_int, in_jump_table,
                   static_in_jump_table, called, runs, first_text, le32_oob,
                   testVars>>
    /\ UNCHANGED visited

\* ZydisFormatterFormatInstruction on a decoded instruction: the mnemonic and
\* its operand.  A relative branch's target goes through the formatter's
\* print-address-absolute callback; the hook, installed there, may hand it
\* on through default_print_address_absolute (line 96).  Returns the text,
\* or that the call through the pointer entered the hook again, and what
\* was called through the pointer.
FormatInstruction(f, instruction) ==
    LET address == ZydisCalcAbsoluteAddress(instruction, runtime_address[f])
        result == UnasmFormatterPrintAddressAbsolute(m_labels[f], address)
        head == <<instruction.mnemonic, " ">>
    IN
    IF instruction.is_relative THEN
        IF formatter[f]["abs"] = "hook" THEN
            CASE result.status = "ok" ->
                    [status |-> "ok", text |-> head \o result.text,
                     called |-> called[f]]
              [] result.status = "failed" ->
                    [status |-> "failed", text |-> <<>>, called |-> called[f]]
              [] result.status = "default" ->
                    IF default_print["abs"] = "zydis"
                    THEN [status |-> "ok",
                          text |-> head \o ZydisDefaultPrint("abs", address),
                          called |-> "zydis"]
                    ELSE [status |-> "reentered", text |-> <<>>,
                          called |-> default_print["abs"]]
        ELSE [status |-> "ok",
              text |-> head \o ZydisDefaultPrint("abs", address),
              called |-> called[f]]
    ELSE IF instruction.mnemonic \in {"inc", "dec", "push", "pop"}
    THEN [status |-> "ok",
          text |-> <<instruction.mnemonic, " ", Reg32[instruction.reg + 1]>>,
          called |-> called[f]]
    ELSE [status |-> "ok", text |-> <<instruction.mnemonic>>,
          called |-> called[f]]

\* Lines 432-435: the label line of the cursor's address, if it has a label.
LabelLine(labels, address) ==
    IF address \in DOMAIN labels THEN <<labels[address] \o <<":">>>> ELSE <<>>

\* Lines 437-439: the instruction's line.
InstructionLine(text) == <<(<<"    ">> \o text)>>

\* Lines 460-464: the line of a slot whose address has a label.
IntLine(labels, address) ==
    IF address \in DOMAIN labels
    THEN <<(<<"    .int ">> \o labels[address])>>
    ELSE <<>>

\* Lines 339-346 and 431-445: format the instruction; then the loop's
\* second condition, the label and instruction lines, and the cursor.
Format(f) ==
    /\ pc[f] = "format"
    /\ Mapped(offset[f], Reads(f))
    /\ LET instruction == UnasmDisassembleNoFormat(Memory, offset[f])
           formatted == FormatInstruction(f, instruction)
           after == offset[f] + instruction.length
       IN
       /\ called' = Upd(called, f, formatted.called)
       /\ CASE formatted.status = "reentered" ->
                 \* the hook has called itself: it does so again, until
                 \* the pointer changes or the stack is used up
                 /\ \/ UNCHANGED pc
                    \/ pc' = [g \in Funcs |->
                                IF pc[g] = "unused" THEN "unused" ELSE "fault"]
                 /\ UNCHANGED <<m_dissassembly, offset, runtime_address,
                                next_int, in_jump_table, le32_oob>>
            [] formatted.status = "failed" \/
               (formatted.status = "ok" /\ ~(offset[f] <= end_offset(f))) ->
                 /\ pc' = Upd(pc, f, "done")
                 /\ UNCHANGED <<m_dissassembly, offset, runtime_address,
                                next_int, in_jump_table, le32_oob>>
            [] formatted.status = "ok" /\ offset[f] <= end_offset(f) ->
                 /\ m_dissassembly' =
                      Upd(m_dissassembly, f,
                          m_dissassembly[f]
                            \o LabelLine(m_labels[f], runtime_address[f])
                            \o InstructionLine(formatted.text))
                 /\ offset' = Upd(offset, f, after)
                 /\ runtime_address' =
                      Upd(runtime_address, f,
                          runtime_address[f] + instruction.length)
                 /\ IF IsJumpTableTrigger(instruction)
                    THEN /\ next_int' = Upd(next_int, f, get_le32(Memory, after))
                         /\ in_jump_table' = Upd(in_jump_table, f, FALSE)
                         /\ le32_oob' =
                              Upd(le32_oob, f,
                                  le32_oob[f] \/ ReadsBehindSection(after))
                         /\ pc' = Upd(pc, f, "scan2")
                    ELSE /\ pc' = Upd(pc, f, "pass2")
                         /\ UNCHANGED <<next_int, in_jump_table, le32_oob>>
    /\ UNCHANGED <<exeVars, beyond, rangeVars, m_labels, static_in_jump_table,
                   default_print, hook_index, formatter, runs, first_text,
                   testVars>>
    /\ visited' =
         LET status ==
               FormatInstruction(
                   f, UnasmDisassembleNoFormat(Memory, offset[f])).status
         IN CASE status = "reentered" -> visited
              [] status = "failed" -> Visit(f, "pass2", "failed")
              [] status = "ok" ->
                   Visit(f, "pass2",
                         IF offset[f] <= end_offset(f) THEN "insn" ELSE "end")

\* The scan of the second loop leaving the table after its first slot.
Mutant_Scan2Step_OneSlot(f) ==
    /\ pc[f] = "scan2"
    /\ Mapped(offset[f], Reads(f))
    /\ IF /\ InFunction(next_int[f], m_startAddress[f], m_endAddress[f])
          /\ ~in_jump_table[f]
       THEN /\ m_dissassembly' =
                 Upd(m_dissassembly, f,
                     m_dissassembly[f]
                       \o LabelLine(m_labels[f], runtime_address[f])
                       \o IntLine(m_labels[f], FromU32(next_int[f])))
            /\ in_jump_table' = Upd(in_jump_table, f, TRUE)
            /\ offset' = Upd(offset, f, offset[f] + 4)
            /\ runtime_address' = Upd(runtime_address, f, runtime_address[f] + 4)
            /\ next_int' = Upd(next_int, f, get_le32(Memory, offset[f] + 4))
            /\ le32_oob' =
                 Upd(le32_oob, f, le32_oob[f] \/ ReadsBehindSection(offset[f] + 4))
            /\ visited' = Visit(f, "pass2", "slot")
            /\ UNCHANGED pc
       ELSE /\ pc' = Upd(pc, f, "pass2")
            /\ UNCHANGED <<m_dissassembly, in_jump_table, offset,
                           runtime_address, next_int, le32_oob, visited>>
    /\ UNCHANGED <<exeVars, beyond, rangeVars, m_labels, static_in_jump_table,
                   default_print, hook_index, formatter, called, runs,
                   first_text, testVars>>

\* Lines 449-469: one test of the scan's condition and, when it holds, one
\* slot.
Scan2Step(f) ==
    /\ pc[f] = "scan2"
    /\ Mapped(offset[f], Reads(f))
    /\ IF InFunction(next_int[f], m_startAddress[f], m_endAddress[f])
       THEN /\ m_dissassembly' =
                 Upd(m_dissassembly, f,
                     m_dissassembly[f]
                       \o (IF ~in_jump_table[f]
                           THEN LabelLine(m_labels[f], runtime_address[f])
                           ELSE <<>>)
                       \o IntLine(m_labels[f], FromU32(next_int[f])))
            /\ in_jump_table' = Upd(in_jump_table, f, TRUE)
            /\ offset' = Upd(offset, f, offset[f] + 4)
            /\ runtime_address' = Upd(runtime_address, f, runtime_address[f] + 4)
            /\ next_int' = Upd(next_int, f, get_le32(Memory, offset[f] + 4))
            /\ le32_oob' =
                 Upd(le32_oob, f, le32_oob[f] \/ ReadsBehindSection(offset[f] + 4))
            /\ UNCHANGED pc
       ELSE /\ pc' = Upd(pc, f, "pass2")
            /\ UNCHANGED <<m_dissassembly, in_jump_table, offset,
                           runtime_address, next_int, le32_oob>>
    /\ UNCHANGED <<exeVars, beyond, rangeVars, m_labels, static_in_jump_table,
                   default_print, hook_index, formatter, called, runs,
                   first_text, testVars>>
    /\ visited' =
         IF InFunction(next_int[f], m_startAddress[f], m_endAddress[f])
         THEN Visit(f, "pass2", "slot")
         ELSE visited

(***************************************************************************)
(* Reads behind the section.  section_data() + offset is read with no      *)
(* check against section_size(): what lies behind the section is whatever  *)
(* memory holds there, or no memory at all.                                *)
(***************************************************************************)
Running(f) == pc[f] \in {"pass1", "scan1", "pass2", "format", "scan2"}

\* Four bytes that do not decode (FF /7).
Undecodable == <<255, 255, 255, 255>>

\* What the memory behind the section may hold, four bytes at a time: bytes
\* that do not decode, four ret, or the address of the section's second
\* byte.
BeyondItems == {Undecodable, <<195, 195, 195, 195>>,
                Le32Bytes(SectionAddress + 1)}

\* The next step of f reads bytes the model has not yet given a value: they
\* hold some value.
ReadBeyond(f) ==
    /\ Running(f)
    /\ ~Mapped(offset[f], Reads(f))
    /\ Len(beyond) < 4 * MaxBeyond
    /\ \E item \in BeyondItems : beyond' = beyond \o item
    /\ UNCHANGED <<exeVars, rangeVars, m_labels, m_dissassembly, pc, offset,
                   runtime_address, next_int, in_jump_table,
                   static_in_jump_table, default_print, hook_index, formatter,
                   called, runs, first_text, le32_oob, testVars>>
    /\ UNCHANGED visited

\* ... or the read faults, and the process ends.
Fault(f) ==
    /\ Running(f)
    /\ ~Mapped(offset[f], Reads(f))
    /\ pc' = [g \in Funcs |-> IF pc[g] = "unused" THEN "unused" ELSE "fault"]
    /\ UNCHANGED <<exeVars, beyond, rangeVars, m_labels, m_dissassembly, offset,
                   runtime_address, next_int, in_jump_table,
                   static_in_jump_table, default_print, hook_index, formatter,
                   called, runs, first_text, le32_oob, testVars>>
    /\ UNCHANGED visited

(***************************************************************************)
(* Spec: one Function, disassembled up to MaxRuns times, over every        *)
(* section of up to MaxItems items.                                        *)
(***************************************************************************)
RECURSIVE Flatten(_)
Flatten(items) ==
    IF items = <<>> THEN <<>> ELSE Head(items) \o Flatten(Tail(items))

SeqsUpTo(S, n) == UNION {[1..k -> S] : k \in 0..n}

\* nop; ret; jmp +1; jz -3; two undecodable bytes; the addresses of the
\* section's second and fourth byte.
Items == {<<144>>, <<195>>, <<235, 1>>, <<116, 253>>, <<255, 255>>,
          Le32Bytes(SectionAddress + 1), Le32Bytes(SectionAddress + 3)}

\* m_endAddress - m_startAddress.
EndSpans == {0, 3, 12}

\* The state of one call at rest.
InitCall ==
    /\ beyond = <<>>
    /\ m_dissassembly = [f \in Funcs |-> <<>>]
    /\ offset = [f \in Funcs |-> 0]
    /\ runtime_address = [f \in Funcs |-> 0]
    /\ next_int = [f \in Funcs |-> U32(0, 0)]
    /\ in_jump_table = [f \in Funcs |-> FALSE]
    /\ static_in_jump_table = FALSE
    /\ default_print = [k \in {"abs", "imm", "rel", "disp", "ptr"} |-> "null"]
    /\ hook_index = [f \in Funcs |-> 1]
    /\ formatter = [f \in Funcs |->
                      [k \in {"abs", "imm", "rel", "disp", "ptr"} |-> "zydis"]]
    /\ called = [f \in Funcs |-> "none"]
    /\ runs = [f \in Funcs |-> 0]
    /\ first_text = [f \in Funcs |-> <<>>]
    /\ le32_oob = [f \in Funcs |-> FALSE]
    /\ visited = [f \in Funcs |-> NoVisits]

NoHookCall == [kind |-> "none", address |-> 0, labels |-> EmptyMap]

InitNoTest ==
    /\ hook_call = NoHookCall
    /\ hook_result = HookDelegates

Init ==
    /\ \E items \in SeqsUpTo(Items, MaxItems) : section_data = Flatten(items)
    /\ base_address = SectionAddress
    /\ end_address = SectionAddress + Len(section_data) + 16
    /\ symbols = {[name |-> <<"entry">>, value |-> SectionAddress]}
    /\ m_startAddress = [f \in Funcs |-> SectionAddress]
    /\ \E span \in EndSpans :
          m_endAddress = [f \in Funcs |-> SectionAddress + span]
    /\ pc = [f \in Funcs |-> IF f = 1 THEN "idle" ELSE "unused"]
    /\ m_labels = [f \in Funcs |-> EmptyMap]
    /\ InitCall
    /\ InitNoTest

Step(f) ==
    \/ Disassemble(f)
    \/ Pass1Step(f)
    \/ Scan1Step(f)
    \/ Pass2Decode(f)
    \/ SetHookAssign(f)
    \/ SetHookSwap(f)
    \/ Format(f)
    \/ Scan2Step(f)
    \/ ReadBeyond(f)
    \/ Fault(f)

Next == \E f \in Funcs : Step(f) \/ DisassembleAgain(f)

Spec == Init /\ [][Next]_vars

(***************************************************************************)
(* SpecHooks: the five hooks on their own, over label tables, symbol       *)
(* tables and addresses on both sides of every range they test.            *)
(***************************************************************************)
\* Bytes of the section of SpecHooks.
HookSectionSize == 4

\* Where passes may have put labels: in the section, in the image behind
\* it, behind the image.
LabelPool == {SectionAddress + 1, SectionAddress + 6, SectionAddress + 9}

\* The symbols a table is drawn from: before the section, in it (one at a
\* label's address), behind it (at a label's address).
SymbolPool ==
    {[name |-> <<"header">>, value |-> SectionAddress - 2],
     [name |-> <<"entry">>, value |-> SectionAddress + 1],
     [name |-> <<"helper">>, value |-> SectionAddress + 3],
     [name |-> <<"table">>, value |-> SectionAddress + 6]}

\* The operand addresses tried: from below the image to behind it.
HookAddresses == (SectionAddress - 3)..(SectionAddress + 10)

InitHooks ==
    /\ section_data = [i \in 1..HookSectionSize |-> 195]
    /\ base_address = SectionAddress - 2
    /\ end_address = SectionAddress + 8
    /\ symbols \in {S \in SUBSET SymbolPool : Cardinality(S) <= MaxSymbols}
    /\ m_startAddress = [f \in Funcs |-> SectionAddress]
    /\ m_endAddress = [f \in Funcs |-> SectionAddress + 9]
    /\ pc = [f \in Funcs |-> "unused"]
    /\ InitCall
    /\ \E L \in SUBSET LabelPool :
          m_labels = [f \in Funcs |-> [a \in L |-> LabelName(a)]]
    /\ InitNoTest

\* The formatter calls the hook of a kind on an operand of function 1.
CallHook(kind, address, ub) ==
    /\ hook_call' = [kind |-> kind, address |-> address, labels |-> m_labels[1]]
    /\ hook_result' = Hook(kind, m_labels[1], address, ub)
    /\ UNCHANGED <<exeVars, beyond, rangeVars, m_labels, m_dissassembly, pc,
                   offset, runtime_address, next_int, in_jump_table,
                   static_in_jump_table, default_print, hook_index, formatter,
                   called, runs, first_text, le32_oob>>
    /\ UNCHANGED visited

PrintAddressAbsolute == \E a \in HookAddresses : CallHook("abs", a, "failed")

PrintAddressRelative == \E a \in HookAddresses : CallHook("rel", a, "failed")

PrintIMM == \E a \in HookAddresses : CallHook("imm", a, "failed")

PrintDISP == \E a \in HookAddresses, ub \in FormatUB : CallHook("disp", a, ub)

FormatOperandPTR == \E a \in HookAddresses : CallHook("ptr", a, "failed")

NextHooks ==
    \/ PrintAddressAbsolute
    \/ PrintAddressRelative
    \/ PrintIMM
    \/ PrintDISP
    \/ FormatOperandPTR

SpecHooks == InitHooks /\ [][NextHooks]_vars

(***************************************************************************)
(* C1.  In each of the five hooks a local label wins: for an address that  *)
(* is a key of the label table the text is the label's name ("+" and the   *)
(* name for a displacement), also when the address lies in the section or  *)
(* the image and a symbol sits exactly at it.                              *)
(***************************************************************************)
C1_LocalLabelWins ==
    (hook_call.kind # "none" /\ hook_call.address \in DOMAIN hook_call.labels)
    => hook_result =
         HookText((IF hook_call.kind = "disp" THEN <<"+">> ELSE <<>>)
                  \o hook_call.labels[hook_call.address])

\* A displacement at a labelled address of the section that also has a
\* symbol exactly at it.
C1_Witness ==
    /\ hook_call.kind = "disp"
    /\ hook_call.address = SectionAddress + 1
    /\ hook_call.address \in DOMAIN hook_call.labels
    /\ \E s \in symbols : s.value = hook_call.address
    /\ hook_result.status = "ok"

(***************************************************************************)
(* C2.  Every key of a Function's label table lies within                  *)
(* [m_startAddress, m_endAddress], whether the label came from a relative  *)
(* branch, from a jump-table slot or from a jump table's anchor.           *)
(***************************************************************************)
C2_LabelsInRange ==
    \A f \in Funcs : \A a \in DOMAIN m_labels[f] :
        a >= m_startAddress[f] /\ a <= m_endAddress[f]

\* Pass 1 is over and has made a branch label (jmp +1 at the start), an
\* anchor label (behind the jmp) and a slot label (the slot's address).
C2_Witness ==
    /\ pc[1] = "pass2"
    /\ Len(section_data) >= 6
    /\ SubSeq(section_data, 1, 6) = <<235, 1>> \o Le32Bytes(SectionAddress + 1)
    /\ DOMAIN m_labels[1] =
         {SectionAddress + 1, SectionAddress + 2, SectionAddress + 3}

(***************************************************************************)
(* SpecTable: one call of disassemble() on a function that starts with a   *)
(* nop or a jmp, followed by up to MaxWords 4-byte words and then by bytes *)
(* that do not decode or by the address of a byte far behind the function. *)
(***************************************************************************)
\* nop; jmp +1; jmp -3 (to the byte before the function).
Triggers == {<<144>>, <<235, 1>>, <<235, 253>>}

\* The addresses the words hold: both possible anchors among them.
TableWords == {SectionAddress + 1, SectionAddress + 2,
               SectionAddress + 5, SectionAddress + 6}

\* m_endAddress - m_startAddress: the function ends at its second byte, or
\* spans the table.
TableSpans == {1, 8}

Terminators == {Undecodable, Le32Bytes(SectionAddress + 24)}

InitTable ==
    /\ \E trigger \in Triggers, words \in SeqsUpTo(TableWords, MaxWords),
          last \in Terminators :
          section_data =
            trigger \o Flatten([i \in DOMAIN words |-> Le32Bytes(words[i])])
                    \o last
    /\ base_address = SectionAddress
    /\ end_address = SectionAddress + Len(section_data) + 16
    /\ symbols = {[name |-> <<"entry">>, value |-> SectionAddress]}
    /\ m_startAddress = [f \in Funcs |-> SectionAddress]
    /\ \E span \in TableSpans :
          m_endAddress = [f \in Funcs |-> SectionAddress + span]
    /\ pc = [f \in Funcs |-> IF f = 1 THEN "idle" ELSE "unused"]
    /\ m_labels = [f \in Funcs |-> EmptyMap]
    /\ InitCall
    /\ InitNoTest

NextOnce == \E f \in Funcs : Step(f)

SpecTable == InitTable /\ [][NextOnce]_vars

(***************************************************************************)
(* C3.  The jump table behind the function's first instruction, read off   *)
(* the section's bytes: its anchor, its slots, and what the two passes     *)
(* must have made of it.                                                   *)
(***************************************************************************)
\* The first instruction's length: 1 for nop (90), 2 for jmp rel8 (EB).
C3_TriggerLength == IF section_data[1] = 144 THEN 1 ELSE 2

\* The address behind the first instruction.
C3_Anchor == SectionAddress + C3_TriggerLength

\* The 32-bit little-endian word at a section offset, or -1 for a word of
\* 2^31 or more (above every address of the model).
C3_Word(off) ==
    IF Memory[off + 4] >= 128 THEN -1
    ELSE Memory[off + 1] + 256 * Memory[off + 2] + 65536 * Memory[off + 3]
         + 16777216 * Memory[off + 4]

C3_InRange(v) == v >= m_startAddress[1] /\ v <= m_endAddress[1]

\* The values of the consecutive in-range words from a section offset on.
RECURSIVE C3_SlotsFrom(_)
C3_SlotsFrom(off) ==
    IF off + 4 <= Len(Memory) /\ C3_InRange(C3_Word(off))
    THEN <<C3_Word(off)>> \o C3_SlotsFrom(off + 4)
    ELSE <<>>

C3_Slots == C3_SlotsFrom(C3_TriggerLength)

C3_SlotValues == {C3_Slots[i] : i \in DOMAIN C3_Slots}

\* The first instruction's own target, when it is a jmp into the function.
C3_BranchTargets ==
    IF section_data[1] = 235
    THEN {t \in {SectionAddress + 2 + SignExtend8(section_data[2])} :
             C3_InRange(t)}
    ELSE {}

\* The ".int" lines of a text, in order.
C3_IntLines(text) == SelectSeq(text, LAMBDA line : line[1] = "    .int ")

C3_ExpectedIntLines ==
    [i \in DOMAIN C3_Slots |-> <<"    .int ", "label_">> \o Hex(C3_Slots[i])]

C3_Pass1Over(f) == pc[f] \in {"pass2", "sethook", "swaphook", "format", "scan2", "done"}

\* C3 as claimed: with n >= 1 slots, pass 1 has made a label at the anchor
\* and one per slot value, and pass 2 has written exactly the n ".int"
\* lines; with 3 distinct slot values there are exactly 4 labels.
C3_Claimed ==
    (Len(C3_Slots) >= 1) =>
        /\ C3_Pass1Over(1) =>
             /\ C3_Anchor \in DOMAIN m_labels[1]
             /\ C3_SlotValues \subseteq DOMAIN m_labels[1]
             /\ (Len(C3_Slots) = 3 /\ Cardinality(C3_SlotValues) = 3)
                   => Cardinality(DOMAIN m_labels[1]) = 4
        /\ pc[1] = "done" =>
             C3_IntLines(m_dissassembly[1]) = C3_ExpectedIntLines

\* C3 as amended: the anchor gets its label exactly when it lies in
\* [m_startAddress, m_endAddress]; the labels are the slot values, that
\* anchor and the target of the first instruction when it is a branch into
\* the function; the ".int" lines are the n slots' lines, in order.  With 3
\* distinct slot values, the anchor in range and apart from them, and no
\* branch target besides, these are 4 labels and 3 ".int" lines.
C3_JumpTable ==
    (Len(C3_Slots) >= 1) =>
        /\ C3_Pass1Over(1) =>
             /\ (C3_Anchor \in DOMAIN m_labels[1]) <=>
                   (C3_InRange(C3_Anchor) \/ C3_Anchor \in C3_SlotValues
                      \/ C3_Anchor \in C3_BranchTargets)
             /\ DOMAIN m_labels[1] =
                   C3_SlotValues \cup C3_BranchTargets
                      \cup {a \in {C3_Anchor} : C3_InRange(a)}
             /\ \A a \in DOMAIN m_labels[1] :
                   m_labels[1][a] = <<"label_">> \o Hex(a)
             /\ (/\ Len(C3_Slots) = 3
                 /\ Cardinality(C3_SlotValues) = 3
                 /\ C3_InRange(C3_Anchor)
                 /\ C3_Anchor \notin C3_SlotValues
                 /\ C3_BranchTargets \subseteq C3_SlotValues \cup {C3_Anchor})
                   => Cardinality(DOMAIN m_labels[1]) = 4
        /\ pc[1] = "done" =>
             C3_IntLines(m_dissassembly[1]) = C3_ExpectedIntLines

\* A finished call over a nop and three distinct slots: 4 labels, 3 lines.
C3_Witness ==
    /\ pc[1] = "done"
    /\ section_data[1] = 144
    /\ Len(C3_Slots) = 3
    /\ Cardinality(C3_SlotValues) = 3
    /\ Cardinality(DOMAIN m_labels[1]) = 4
    /\ Len(C3_IntLines(m_dissassembly[1])) = 3

(***************************************************************************)
(* C4.  A relative branch that pass 1 walks over and whose target t lies   *)
(* in [m_startAddress, m_endAddress] leaves the label "label_<hex t>";     *)
(* pass 2 writes the line of a labelled address right before the line of   *)
(* the instruction that starts there, and writes such a branch with the    *)
(* label's name as its operand.                                            *)
(***************************************************************************)
\* The byte at the cursor is the opcode of jmp rel8 (EB) or jz rel8 (74).
C4_BranchAtCursor(f) == Memory[offset[f] + 1] \in {235, 116}

C4_Mnemonic(f) == IF Memory[offset[f] + 1] = 235 THEN "jmp" ELSE "jz"

\* The branch's target: the address behind its two bytes plus the signed
\* byte.
C4_Target(f) ==
    runtime_address[f] + 2
      + (IF Memory[offset[f] + 2] >= 128 THEN Memory[offset[f] + 2] - 256
         ELSE Memory[offset[f] + 2])

C4_TargetInRange(f) ==
    C4_Target(f) >= m_startAddress[f] /\ C4_Target(f) <= m_endAddress[f]

\* The lines a step has added to the text of f.
C4_NewLines(f) ==
    SubSeq(m_dissassembly'[f], Len(m_dissassembly[f]) + 1, Len(m_dissassembly'[f]))

C4_Step(f) ==
    /\ (/\ pc[f] = "pass1"
        /\ offset'[f] > offset[f]
        /\ C4_BranchAtCursor(f)
        /\ C4_TargetInRange(f))
         => /\ C4_Target(f) \in DOMAIN m_labels'[f]
            /\ m_labels'[f][C4_Target(f)] = <<"label_">> \o Hex(C4_Target(f))
    /\ (/\ pc[f] = "format"
        /\ Len(m_dissassembly'[f]) > Len(m_dissassembly[f]))
         => /\ runtime_address[f] \in DOMAIN m_labels[f]
                 => /\ Len(C4_NewLines(f)) = 2
                    /\ C4_NewLines(f)[1] =
                         <<"label_">> \o Hex(runtime_address[f]) \o <<":">>
                    /\ C4_NewLines(f)[2][1] = "    "
            /\ (C4_BranchAtCursor(f) /\ C4_TargetInRange(f))
                 => C4_NewLines(f)[Len(C4_NewLines(f))] =
                      <<"    ", C4_Mnemonic(f), " ", "label_">>
                         \o Hex(C4_Target(f))

C4_BranchLabels == [][\A f \in Funcs : C4_Step(f)]_vars

\* A finished call over "jmp +1; nop; ret": the jmp names the label of the
\* ret, and the label's line stands right before the ret's.
C4_Witness ==
    /\ pc[1] = "done"
    /\ Len(m_dissassembly[1]) >= 4
    /\ m_dissassembly[1][1] =
         <<"    ", "jmp", " ", "label_">> \o Hex(SectionAddress + 3)
    /\ m_dissassembly[1][3] = <<"label_">> \o Hex(SectionAddress + 3) \o <<":">>
    /\ m_dissassembly[1][4] = <<"    ", "ret">>

(***************************************************************************)
(* C5.  When the walk from m_startAddress meets bytes that do not decode   *)
(* after k instructions, each pass ends there at once (pass 1 goes on to   *)
(* pass 2 with the labels it has, pass 2 returns with the text it has),    *)
(* and each call has added exactly the k instructions' lines, in order,    *)
(* among whole label, instruction and ".int" lines only.                   *)
(***************************************************************************)
RECURSIVE C5_SkipSlots(_, _)
\* The offset behind the words, from off on, that lie in the function.
C5_SkipSlots(f, off) ==
    IF InFunction(get_le32(Memory, off), m_startAddress[f], m_endAddress[f])
    THEN C5_SkipSlots(f, off + 4)
    ELSE off

RECURSIVE C5_Walk(_, _)
\* The mnemonics of the instructions a pass walks over from off on, where
\* it ends, and whether a failed decode ended it.
C5_Walk(f, off) ==
    LET instruction == UnasmDisassembleNoFormat(Memory, off) IN
    IF ~instruction.ok
    THEN [mnemonics |-> <<>>, at |-> off, stop |-> "decode"]
    ELSE IF off > end_offset(f)
    THEN [mnemonics |-> <<>>, at |-> off, stop |-> "range"]
    ELSE LET after == off + instruction.length
             rest == C5_Walk(f, IF IsJumpTableTrigger(instruction)
                                THEN C5_SkipSlots(f, after) ELSE after)
         IN [rest EXCEPT !.mnemonics = <<instruction.mnemonic>> \o @]

C5_Start(f) == m_startAddress[f] - SectionAddress

C5_IsInstructionLine(line) ==
    /\ Len(line) >= 2
    /\ line[1] = "    "
    /\ line[2] \in {"inc", "dec", "push", "pop", "nop", "ret", "jmp", "jz"}

C5_IsIntLine(line) ==
    Len(line) >= 3 /\ line[1] = "    .int " /\ line[2] = "label_"

C5_IsLabelLine(line) ==
    Len(line) >= 3 /\ line[1] = "label_" /\ line[Len(line)] = ":"

RECURSIVE C5_Repeat(_, _)
C5_Repeat(s, n) == IF n = 0 THEN <<>> ELSE s \o C5_Repeat(s, n - 1)

\* The mnemonics of the instruction lines of a text, in order.
C5_Mnemonics(text) ==
    LET lines == SelectSeq(text, C5_IsInstructionLine)
    IN [i \in 1..Len(lines) |-> lines[i][2]]

\* After a call whose walk a failed decode ended.
C5_Returned(f) ==
    (/\ pc[f] = "done"
     /\ section_size > 0
     /\ C5_Walk(f, C5_Start(f)).stop = "decode")
      => /\ offset[f] = C5_Walk(f, C5_Start(f)).at
         /\ C5_Mnemonics(m_dissassembly[f]) =
              C5_Repeat(C5_Walk(f, C5_Start(f)).mnemonics, runs[f])
         /\ \A i \in 1..Len(m_dissassembly[f]) :
               \/ C5_IsInstructionLine(m_dissassembly[f][i])
               \/ C5_IsIntLine(m_dissassembly[f][i])
               \/ C5_IsLabelLine(m_dissassembly[f][i])
         /\ m_dissassembly[f] # <<>> =>
               ~C5_IsLabelLine(m_dissassembly[f][Len(m_dissassembly[f])])

\* The cursor of a pass stands on bytes that do not decode.
C5_FailsAtCursor(f) ==
    /\ pc[f] \in {"pass1", "pass2"}
    /\ Mapped(offset[f], 2)
    /\ ~UnasmDisassembleNoFormat(Memory, offset[f]).ok

C5_EndsPass(f) ==
    C5_FailsAtCursor(f)
      => /\ pc'[f] = (IF pc[f] = "pass1" THEN "pass2" ELSE "done")
         /\ m_labels'[f] = m_labels[f]
         /\ m_dissassembly'[f] = m_dissassembly[f]

C5_DecodeFailure ==
    /\ [](\A f \in Funcs : C5_Returned(f))
    /\ [][\A f \in Funcs : pc[f] # "unused" => C5_EndsPass(f)]_vars

\* A first call has returned from bytes that fail to decode inside the
\* range, behind two instructions or more and with a label made.
C5_Witness ==
    /\ pc[1] = "done"
    /\ runs[1] = 1
    /\ section_size > 0
    /\ C5_Walk(1, C5_Start(1)).stop = "decode"
    /\ C5_Walk(1, C5_Start(1)).at <= end_offset(1)
    /\ Len(C5_Walk(1, C5_Start(1)).mnemonics) >= 2
    /\ Len(SelectSeq(m_dissassembly[1], C5_IsInstructionLine)) = 2
    /\ DOMAIN m_labels[1] # {}

(***************************************************************************)
(* C6.  A second call of disassemble() on the same Function, over the same *)
(* range and bytes, leaves in dissassembly() the text the first call left. *)
(* The code never clears m_dissassembly: the second call appends to it.    *)
(***************************************************************************)
C6_RerunIdentical ==
    \A f \in Funcs :
        (pc[f] = "done" /\ runs[f] = 2) => m_dissassembly[f] = first_text[f]

(***************************************************************************)
(* C7.  The displacement hook, on an address x that has no label, lies in  *)
(* the section or in the image, and whose nearest symbol s lies below x,   *)
(* renders "+<s.name>+0x<hex(x - s.value)>".  The format of line 210 has   *)
(* no conversion for the difference: in the section it is never rendered.  *)
(***************************************************************************)
C7_Applies ==
    /\ hook_call.kind = "disp"
    /\ hook_call.address \notin DOMAIN hook_call.labels
    /\ \/ (hook_call.address >= SectionAddress /\ hook_call.address <= section_end)
       \/ (hook_call.address >= base_address /\ hook_call.address <= end_address)
    /\ get_symbol(hook_call.address).name # <<>>
    /\ get_symbol(hook_call.address).value < hook_call.address

C7_DisplacementOffset ==
    C7_Applies =>
        /\ hook_result.status = "ok"
        /\ hook_result.text =
             <<"+">> \o get_symbol(hook_call.address).name \o <<"+0x">>
                \o Hex(hook_call.address - get_symbol(hook_call.address).value)

(***************************************************************************)
(* C8.  The label of an address a is "label_" followed by a in lowercase   *)
(* hexadecimal, whichever insertion made it; no step changes or removes an *)
(* entry, and an insertion at an address that has a label leaves the table *)
(* as it was.                                                              *)
(***************************************************************************)
C8_Digits ==
    <<"0", "1", "2", "3", "4", "5", "6", "7",
      "8", "9", "a", "b", "c", "d", "e", "f">>

C8_IsDigit(d) == \E i \in 1..16 : C8_Digits[i] = d

RECURSIVE C8_Value(_)
\* The number a sequence of lowercase hexadecimal digits writes.
C8_Value(digits) ==
    IF digits = <<>> THEN 0
    ELSE C8_Value(SubSeq(digits, 1, Len(digits) - 1)) * 16
           + (CHOOSE i \in 1..16 : C8_Digits[i] = digits[Len(digits)]) - 1

C8_IsNameOf(name, address) ==
    /\ Len(name) >= 2
    /\ name[1] = "label_"
    /\ \A i \in 2..Len(name) : C8_IsDigit(name[i])
    /\ name[2] # "0"
    /\ C8_Value(Tail(name)) = address

C8_Named ==
    \A f \in Funcs : \A a \in DOMAIN m_labels[f] :
        C8_IsNameOf(m_labels[f][a], a)

\* The addresses the step of f inserts, read off the bytes at the cursor.
C8_Inserted(f) ==
    CASE pc[f] = "pass1" /\ offset'[f] > offset[f] /\ C4_BranchAtCursor(f)
           /\ C4_TargetInRange(f) -> {C4_Target(f)}
      [] pc[f] = "scan1" /\ offset'[f] > offset[f] ->
           {FromU32(next_int[f])}
             \cup (IF /\ ~in_jump_table[f]
                      /\ runtime_address[f] >= m_startAddress[f]
                      /\ runtime_address[f] <= m_endAddress[f]
                   THEN {runtime_address[f]} ELSE {})
      [] OTHER -> {}

C8_Step(f) ==
    /\ \A a \in DOMAIN m_labels[f] :
          a \in DOMAIN m_labels'[f] /\ m_labels'[f][a] = m_labels[f][a]
    /\ DOMAIN m_labels'[f] = DOMAIN m_labels[f] \cup C8_Inserted(f)
    /\ C8_Inserted(f) \subseteq DOMAIN m_labels[f] => m_labels'[f] = m_labels[f]

C8_LabelInsertion ==
    /\ []C8_Named
    /\ [][\A f \in Funcs : C8_Step(f)]_vars

\* Pass 1 is over a nop followed by two slots that both hold the anchor's
\* own address: three insertions, one label.
C8_Witness ==
    /\ pc[1] = "pass2"
    /\ runs[1] = 1
    /\ section_data =
         <<144>> \o Le32Bytes(SectionAddress + 1) \o Le32Bytes(SectionAddress + 1)
    /\ DOMAIN m_labels[1] = {SectionAddress + 1}

(***************************************************************************)
(* C9.  On a section of size zero disassemble() returns at once: nothing   *)
(* is decoded, no label is made, no text is written, nothing fails.        *)
(***************************************************************************)
C9_ZeroSizeNoOp ==
    section_size = 0 =>
        \A f \in Funcs :
            /\ pc[f] \in {"unused", "idle", "done"}
            /\ m_labels[f] = EmptyMap
            /\ m_dissassembly[f] = <<>>
            /\ offset[f] = 0
            /\ beyond = <<>>

\* disassemble() has returned twice on a section of size zero.
C9_Witness == section_size = 0 /\ pc[1] = "done" /\ runs[1] = 2

(***************************************************************************)
(* SpecConc: two Functions over the same section, each disassembled once,  *)
(* by two threads whose steps interleave.                                  *)
(***************************************************************************)
\* Items of a section of SpecConc, at most.
MaxConcItems == 1

\* jz -3 (from the section's start: to the byte before the image); nop;
\* ret.
ConcItems == {<<116, 253>>, <<144>>, <<195>>}

InitConc ==
    /\ \E items \in SeqsUpTo(ConcItems, MaxConcItems) :
          section_data = Flatten(items)
    /\ base_address = SectionAddress
    /\ end_address = SectionAddress + Len(section_data) + 16
    /\ symbols = {[name |-> <<"entry">>, value |-> SectionAddress]}
    /\ m_startAddress = [f \in Funcs |-> SectionAddress]
    /\ m_endAddress = [f \in Funcs |-> SectionAddress + 3]
    /\ pc = [f \in Funcs |-> "idle"]
    /\ m_labels = [f \in Funcs |-> EmptyMap]
    /\ InitCall
    /\ InitNoTest

SpecConc == InitConc /\ [][NextOnce]_vars

(***************************************************************************)
(* C10.  With two calls of disassemble() interleaved, a hook that hands    *)
(* its operand on through default_* always reaches the formatter's own     *)
(* default of that kind, never the hook.  The default_* pointers are       *)
(* file-scope statics that every call of UnasmDisassembleCustom writes:    *)
(* between lines 322 and 323 of one call, the other call's hook finds the  *)
(* hook's own address there.                                               *)
(***************************************************************************)
C10_DelegatesToDefault == \A f \in Funcs : called[f] \in {"none", "zydis"}

(***************************************************************************)
(* C11.  A call on a Function whose m_startAddress or m_endAddress lies    *)
(* outside [section_address, section_address + section_size] writes no     *)
(* text and makes no label.  The code tests section_size() == 0 only: a    *)
(* range that ends behind a section of some size is walked as any other.   *)
(***************************************************************************)
C11_InSection(address) ==
    address >= SectionAddress /\ address <= SectionAddress + section_size

C11_OutsideNoOutput ==
    \A f \in Funcs :
        (~C11_InSection(m_startAddress[f]) \/ ~C11_InSection(m_endAddress[f]))
          => (m_dissassembly[f] = <<>> /\ m_labels[f] = EmptyMap)

(***************************************************************************)
(* C13.  The jump-table scan of either pass never calls get_le32 on four   *)
(* bytes that reach behind the section's last byte.  Neither the read      *)
(* before the scan (lines 390, 444) nor the one at the end of its body     *)
(* (lines 416, 468) is tested against section_size().                      *)
(***************************************************************************)
C13_ScanStaysInSection == \A f \in Funcs : ~le32_oob[f]

(***************************************************************************)
(* C15.  In the text of a finished call every label name that an           *)
(* instruction's operand or a ".int" line uses has its "<name>:" line in   *)
(* the same text, and no label line is written twice.  A label whose       *)
(* address pass 2 never stands on (a branch into bytes that do not decode, *)
(* into the middle of an instruction or into a jump table) gets no line.   *)
(***************************************************************************)
\* The label names the lines of a text use.
C15_Referenced(text) ==
    {SubSeq(text[i], 4, Len(text[i])) :
        i \in {j \in 1..Len(text) :
                 /\ C5_IsInstructionLine(text[j])
                 /\ Len(text[j]) >= 4
                 /\ text[j][4] = "label_"}}
      \cup {Tail(text[i]) : i \in {j \in 1..Len(text) : C5_IsIntLine(text[j])}}

\* The positions of the label lines of a text.
C15_LabelLines(text) == {i \in 1..Len(text) : C5_IsLabelLine(text[i])}

C15_ReferencedAreDefined ==
    \A f \in Funcs :
        (pc[f] = "done" /\ runs[f] = 1) =>
            LET text == m_dissassembly[f] IN
            /\ \A name \in C15_Referenced(text) :
                  \E i \in C15_LabelLines(text) : text[i] = name \o <<":">>
            /\ \A i, j \in C15_LabelLines(text) : text[i] = text[j] => i = j

(***************************************************************************)
(* C14.  What the five hooks make of an address that has no label and no   *)
(* symbol of its own: "sub_<hex>" in the section, "off_<hex>" in the rest  *)
(* of the image, the formatter's default elsewhere, with "+" in front for  *)
(* displacements.  As claimed it fails for the far-pointer hook, which     *)
(* writes "unk_" (line 274), and for the displacement hook, which names    *)
(* the nearest symbol below the address when there is one.                 *)
(***************************************************************************)
C14_InSection ==
    hook_call.address >= SectionAddress /\ hook_call.address <= section_end

C14_InImage ==
    hook_call.address >= base_address /\ hook_call.address <= end_address

C14_Named == get_symbol(hook_call.address).name # <<>>

C14_Exact ==
    C14_Named /\ get_symbol(hook_call.address).value = hook_call.address

\* The result is the prefix followed by the address in lowercase
\* hexadecimal.
C14_Renders(prefix) ==
    /\ hook_result.status = "ok"
    /\ Len(hook_result.text) >= 2
    /\ hook_result.text[1] = prefix
    /\ \A i \in 2..Len(hook_result.text) : C8_IsDigit(hook_result.text[i])
    /\ hook_result.text[2] # "0"
    /\ C8_Value(Tail(hook_result.text)) = hook_call.address

C14_Resolves(sub, off) ==
    IF C14_InSection THEN C14_Renders(sub)
    ELSE IF C14_InImage THEN C14_Renders(off)
    ELSE hook_result.status = "default"

\* The claim as it stands.
C14_Claimed ==
    (/\ hook_call.kind # "none"
     /\ hook_call.address \notin DOMAIN hook_call.labels
     /\ ~C14_Exact)
      => IF hook_call.kind = "disp"
         THEN C14_Resolves("+sub_", "+off_")
         ELSE C14_Resolves("sub_", "off_")

\* The far-pointer hook writes "unk_"; the displacement hook does as the
\* others when the lookup finds no named symbol at all.
C14_HookTexts ==
    (/\ hook_call.kind # "none"
     /\ hook_call.address \notin DOMAIN hook_call.labels
     /\ ~C14_Exact
     /\ hook_call.kind = "disp" => ~C14_Named)
      => CASE hook_call.kind = "disp" -> C14_Resolves("+sub_", "+off_")
           [] hook_call.kind = "ptr"  -> C14_Resolves("sub_", "unk_")
           [] OTHER                   -> C14_Resolves("sub_", "off_")

\* The far-pointer hook on an address of the image behind the section, with
\* a symbol below it.
C14_Witness ==
    /\ hook_call.kind = "ptr"
    /\ hook_call.address \notin DOMAIN hook_call.labels
    /\ ~C14_InSection
    /\ C14_InImage
    /\ C14_Named
    /\ ~C14_Exact
    /\ hook_result.status = "ok"

(***************************************************************************)
(* C12.  Within one call, and as long as the formatter formats what the    *)
(* decoder decodes, the cursor of pass 2 stands on what the cursor of      *)
(* pass 1 stood on: the same instructions and the same jump-table slots at *)
(* the same addresses in the same order, and the same address at the end.  *)
(***************************************************************************)
C12_IsPrefix(s, t) == Len(s) <= Len(t) /\ s = SubSeq(t, 1, Len(s))

\* The formatter has failed in the second loop of f.
C12_FormatFailed(f) ==
    \E i \in 1..Len(visited[f].pass2) : visited[f].pass2[i][1] = "failed"

C12_SamePath ==
    \A f \in Funcs :
        ~C12_FormatFailed(f) =>
            /\ C12_IsPrefix(visited[f].pass2, visited[f].pass1)
            /\ (pc[f] = "done" /\ section_size > 0)
                  => visited[f].pass2 = visited[f].pass1

\* A call has returned whose second loop stood on an instruction, on two
\* slots of a jump table and, behind them, on another instruction.
C12_Witness ==
    /\ pc[1] = "done"
    /\ Len(visited[1].pass2) >= 5
    /\ visited[1].pass2[1][1] = "insn"
    /\ visited[1].pass2[2][1] = "slot"
    /\ visited[1].pass2[3][1] = "slot"
    /\ visited[1].pass2[4][1] = "insn"
    /\ visited[1].pass2[Len(visited[1].pass2)][1] = "end"

=============================================================================
